---- MODULE Spec2Model ----
(***************************************************************************)
(* Pin allocation of ipfs-cluster: Cluster.allocate and its helpers        *)
(* (allocation logic file) together with api.Metric (api/types.go).        *)
(*                                                                         *)
(* One call of allocate is one step.  The consensus state (the pin's       *)
(* allocations), the monitor's last metrics and the clock are the          *)
(* environment the call reads; the arguments and the outcome of the last   *)
(* call are kept so that properties of the call can be stated.             *)
(***************************************************************************)
EXTENDS Integers, Sequences, FiniteSets, TLC

\* ------------------------------------------------------------------ bounds

\* The peers of the cluster, and one fixed enumeration of them.
PeerOrder == <<"P1", "P2", "P3">>
Peers == {PeerOrder[i] : i \in DOMAIN PeerOrder}

\* Largest replication factor a caller asks for.
MaxRpl == 3
\* Clock readings and expiry instants are 0..MaxTime.
MaxTime == 2
\* Longest list the allocator hands back.
MaxRanked == 2

VARIABLES
    pinAllocs,          \* consensus state: Pin.Allocations of the Cid
    metrics,            \* monitor: last metrics of the informer, one list
    now,                \* time.Now() as read by Metric.Expired
    pc,                 \* "idle" | "returned" | "committed"
    args,               \* arguments of the last call of allocate
    env,                \* what consensus and the monitor answered in that call
    currentAllocs,      \* allocate: currentAllocs
    currentMetrics,     \* allocate: currentMetrics   (map peer -> metric)
    candidatesMetrics,  \* allocate: candidatesMetrics (map peer -> metric)
    alloc,              \* obtainAllocations: its locals in the last call
    ret,                \* what allocate returned: list (or nil) and error
    repeat              \* the last call repeated the one before on its result

vars == <<pinAllocs, metrics, now, pc, args, env, currentAllocs,
          currentMetrics, candidatesMetrics, alloc, ret, repeat>>

\* ----------------------------------------------------------------- helpers

SeqsUpTo(S, n) == UNION {[1..k -> S] : k \in 0..n}

Range(s) == {s[i] : i \in DOMAIN s}

\* A Go map with no entries.
EmptyMap == [p \in {} |-> p]

\* m[k] = v on a Go map.
MapPut(m, k, v) == [p \in DOMAIN m \cup {k} |-> IF p = k THEN v ELSE m[p]]

\* The orders in which "for k := range m" can enumerate the keys of a map:
\* Go leaves the iteration order of a map unspecified.
MapOrders(S) ==
    {s \in [1..Cardinality(S) -> S] : \A i, j \in DOMAIN s : i # j => s[i] # s[j]}

PeerIndex(p) == CHOOSE i \in DOMAIN PeerOrder : PeerOrder[i] = p

\* ------------------------------------------------------------- api.Metric

\* Metric.Expire: "" (no expiry set) is <<>>, an RFC3339Nano instant t is <<t>>.
Expires == {<<>>} \cup {<<t>> : t \in 0..MaxTime}

Metric == [Peer : Peers, Valid : BOOLEAN, Expire : Expires]

\* Mutant of Expired: a metric is expired from its expiry instant on.
ExpiredAtExpiry(m, t) ==
    IF m.Expire = <<>> THEN TRUE ELSE t >= m.Expire[1]

\* Metric.Expired: true without an expiry, else time.Now().After(exp).
Expired(m, t) ==
    IF m.Expire = <<>> THEN TRUE ELSE t > m.Expire[1]

\* Metric.Discard
Discard(m, t) == ~m.Valid \/ Expired(m, t)

\* ------------------------------------------------------------ allocate

containsPeer(list, p) == \E i \in DOMAIN list : list[i] = p

minInt(a, b) == IF a < b THEN a ELSE b

\* Mutant of getCurrentAllocations: the error of consensus.State() is ignored
\* and the allocations last seen are used.
getCurrentAllocationsStale(stateOk, pin) == pin

\* getCurrentAllocations: no state is taken as no allocations.
getCurrentAllocations(stateOk, pin) ==
    IF ~stateOk THEN <<>> ELSE pin

\* Mutant of getInformerMetrics: the error of consensus.Leader() is dropped
\* and the metrics of whoever answers are used.
getInformerMetricsAnyPeer(leaderOk, rpcOk, ms) ==
    IF ~rpcOk THEN [err |-> "rpc", metrics |-> <<>>]
    ELSE [err |-> "nil", metrics |-> ms]

\* getInformerMetrics: the leader's PeerMonitorLastMetrics, or an error.
getInformerMetrics(leaderOk, rpcOk, ms) ==
    IF ~leaderOk THEN [err |-> "noleader", metrics |-> <<>>]
    ELSE IF ~rpcOk THEN [err |-> "rpc", metrics |-> <<>>]
    ELSE [err |-> "nil", metrics |-> ms]

\* Mutant of classify: the blacklist is not consulted.
classifyNoBlacklist(m, blacklist, allocs, t) ==
    CASE Discard(m, t) -> "discard"
      [] containsPeer(allocs, m.Peer) -> "current"
      [] OTHER -> "candidate"

\* Mutant of classify: discarded metrics are not filtered out.
classifyNoDiscard(m, blacklist, allocs, t) ==
    CASE containsPeer(blacklist, m.Peer) -> "discard"
      [] containsPeer(allocs, m.Peer) -> "current"
      [] OTHER -> "candidate"

\* The switch of allocate's loop: where one metric goes.
classify(m, blacklist, allocs, t) ==
    CASE Discard(m, t) \/ containsPeer(blacklist, m.Peer) -> "discard"
      [] containsPeer(allocs, m.Peer) -> "current"
      [] OTHER -> "candidate"

\* Mutant of divide: the cases are tested one after the other instead of in a
\* switch, so the metric of a current peer is filed as a candidate's as well.
RECURSIVE divideBoth(_, _, _, _, _)
divideBoth(ms, acc, blacklist, allocs, t) ==
    IF ms = <<>> THEN acc
    ELSE LET m == Head(ms)
             k == classify(m, blacklist, allocs, t)
             next == CASE k = "current" ->
                            [acc EXCEPT !.current = MapPut(@, m.Peer, m),
                                        !.candidates = MapPut(@, m.Peer, m)]
                       [] k = "candidate" ->
                            [acc EXCEPT !.candidates = MapPut(@, m.Peer, m)]
                       [] OTHER -> acc
         IN divideBoth(Tail(ms), next, blacklist, allocs, t)

\* allocate's loop over the metrics, in the order of the list.
RECURSIVE divide(_, _, _, _, _)
divide(ms, acc, blacklist, allocs, t) ==
    IF ms = <<>> THEN acc
    ELSE LET m == Head(ms)
             k == classify(m, blacklist, allocs, t)
             next == CASE k = "current" ->
                            [acc EXCEPT !.current = MapPut(@, m.Peer, m)]
                       [] k = "candidate" ->
                            [acc EXCEPT !.candidates = MapPut(@, m.Peer, m)]
                       [] OTHER -> acc
         IN divide(Tail(ms), next, blacklist, allocs, t)

\* ------------------------------------------------------- obtainAllocations

NoError == [kind |-> "nil", needed |-> 0, wanted |-> 0, valid |-> 0, peers |-> {}]

\* Mutant of allocationError: needed and wanted change places in the message.
allocationErrorSwapped(needed, wanted, candidatesValid) ==
    [kind |-> "allocation", needed |-> wanted, wanted |-> needed,
     valid |-> Len(candidatesValid), peers |-> Range(candidatesValid)]

\* allocationError: the message carries needed, wanted and len(candidatesValid);
\* the peers themselves go to the log.
allocationError(needed, wanted, candidatesValid) ==
    [kind |-> "allocation", needed |-> needed, wanted |-> wanted,
     valid |-> Len(candidatesValid), peers |-> Range(candidatesValid)]

\* logError(err.Error()) on the allocator's error.
allocatorError == [kind |-> "allocator", needed |-> 0, wanted |-> 0, valid |-> 0, peers |-> {}]

NilResult == [nil |-> TRUE, list |-> <<>>]

ListResult(l) == [nil |-> FALSE, list |-> l]

\* "if wanted <= 0": the branch that drops allocations.
dropSome(wanted) == wanted <= 0

\* "if needed <= 0": allocations are above the minimal threshold.
keepAsIs(needed) == needed <= 0

\* "if nCandidatesValid < needed"
notEnoughCandidates(nCandidatesValid, needed) == nCandidatesValid < needed

\* Mutant of dropped: the tail of validAllocations is kept, not its head.
droppedTail(validAllocations, wanted) ==
    SubSeq(validAllocations, 1 - wanted, Len(validAllocations))

\* validAllocations[0 : len(validAllocations)+wanted]
dropped(validAllocations, wanted) ==
    SubSeq(validAllocations, 1, Len(validAllocations) + wanted)

\* Mutant of expanded: every peer the allocator returned is taken.
expandedAll(validAllocations, finalAllocs, wanted) ==
    validAllocations \o finalAllocs

\* Mutant of expanded: the new peers are put before the current ones.
expandedFront(validAllocations, finalAllocs, wanted) ==
    SubSeq(finalAllocs, 1, minInt(wanted, Len(finalAllocs))) \o validAllocations

\* append(validAllocations, finalAllocs[0:allocationsToUse]...)
expanded(validAllocations, finalAllocs, wanted) ==
    validAllocations \o SubSeq(finalAllocs, 1, minInt(wanted, Len(finalAllocs)))

\* The allocator (PinAllocator.Allocate): an error, or a list of peers taken
\* from the metrics it was given, in its order of preference.
AllocatorOutputs(current, candidates) ==
    {[err |-> TRUE, peers |-> <<>>]} \cup
    {[err |-> FALSE, peers |-> s] :
        s \in SeqsUpTo(DOMAIN current \cup DOMAIN candidates, MaxRanked)}

NotCalled == [called |-> FALSE, current |-> {}, candidates |-> {}, err |-> FALSE, peers |-> <<>>]

\* obtainAllocations after the allocator answered a.
afterAllocator(needed, wanted, validAllocations, a) ==
    IF a.err THEN [ret |-> NilResult, err |-> allocatorError]
    ELSE IF Len(a.peers) < needed
         THEN [ret |-> NilResult, err |-> allocationError(needed, wanted, a.peers)]
    ELSE [ret |-> ListResult(expanded(validAllocations, a.peers, wanted)),
          err |-> NoError]

\* obtainAllocations with validAllocations enumerated as va: the outcomes it
\* can have (candidatesValid is enumerated in any order of the map too).
obtainWith(rplMin, rplMax, current, candidates, va) ==
    LET nCurrentValid == Len(va)
        nCandidatesValid == Cardinality(DOMAIN candidates)
        needed == rplMin - nCurrentValid
        wanted == rplMax - nCurrentValid
        base == [validAllocations |-> va, needed |-> needed, wanted |-> wanted,
                 allocator |-> NotCalled]
    IN  IF dropSome(wanted)
        THEN {[local |-> base, ret |-> ListResult(dropped(va, wanted)), err |-> NoError]}
        ELSE IF keepAsIs(needed)
        THEN {[local |-> base, ret |-> NilResult, err |-> NoError]}
        ELSE IF notEnoughCandidates(nCandidatesValid, needed)
        THEN {[local |-> base, ret |-> NilResult,
               err |-> allocationError(needed, wanted, cv)] :
                cv \in MapOrders(DOMAIN candidates)}
        ELSE {[local |-> [base EXCEPT !.allocator =
                            [called |-> TRUE, current |-> DOMAIN current,
                             candidates |-> DOMAIN candidates,
                             err |-> a.err, peers |-> a.peers]],
               ret |-> afterAllocator(needed, wanted, va, a).ret,
               err |-> afterAllocator(needed, wanted, va, a).err] :
                a \in AllocatorOutputs(current, candidates)}

obtainAllocations(rplMin, rplMax, current, candidates) ==
    UNION {obtainWith(rplMin, rplMax, current, candidates, va) :
             va \in MapOrders(DOMAIN current)}

\* ------------------------------------------------------------------ state

\* The monitor keeps one last metric per peer: the lists it answers with.
MetricSnapshots ==
    {s \in SeqsUpTo(Metric, Len(PeerOrder)) :
        \A i, j \in DOMAIN s : i < j => PeerIndex(s[i].Peer) < PeerIndex(s[j].Peer)}

\* Allocations a pin starts with: the first k peers.
StartAllocs == {SubSeq(PeerOrder, 1, k) : k \in 0..Len(PeerOrder)}

Blacklists == {<<>>} \cup {<<p>> : p \in Peers}

NoArgs == [rplMin |-> 1, rplMax |-> 1, blacklist |-> <<>>]

NoEnv == [stateOk |-> TRUE, leaderOk |-> TRUE, rpcOk |-> TRUE]

NoReturn == [nil |-> TRUE, list |-> <<>>, err |-> NoError]

NoLocals == [validAllocations |-> <<>>, needed |-> 0, wanted |-> 0, allocator |-> NotCalled]

Init ==
    /\ pinAllocs \in StartAllocs
    /\ metrics \in MetricSnapshots
    /\ now = 1
    /\ pc = "idle"
    /\ args = NoArgs
    /\ env = NoEnv
    /\ currentAllocs = <<>>
    /\ currentMetrics = EmptyMap
    /\ candidatesMetrics = EmptyMap
    /\ alloc = NoLocals
    /\ ret = NoReturn
    /\ repeat = FALSE

\* Lists of metrics in which one peer has two metrics, followed by at most one
\* metric of another peer.
RepeatedSnapshots ==
    {<<a, b>> \o rest :
        a \in {m \in Metric : m.Peer = PeerOrder[1]},
        b \in {m \in Metric : m.Peer = PeerOrder[1]},
        rest \in SeqsUpTo({m \in Metric : m.Peer = PeerOrder[2]}, 1)}

\* As Init, the monitor answering with several metrics for one peer.
InitRepeated ==
    /\ pinAllocs \in StartAllocs
    /\ metrics \in RepeatedSnapshots
    /\ now = 1
    /\ pc = "idle"
    /\ args = NoArgs
    /\ env = NoEnv
    /\ currentAllocs = <<>>
    /\ currentMetrics = EmptyMap
    /\ candidatesMetrics = EmptyMap
    /\ alloc = NoLocals
    /\ ret = NoReturn
    /\ repeat = FALSE

\* One call allocate(hash, rplMin, rplMax, blacklist) answered by e.
Call(a, e) ==
    LET allocs == getCurrentAllocations(e.stateOk, pinAllocs)
        got == getInformerMetrics(e.leaderOk, e.rpcOk, metrics)
        parts == divide(got.metrics, [current |-> EmptyMap, candidates |-> EmptyMap],
                        a.blacklist, allocs, now)
    IN  /\ args' = a
        /\ env' = e
        /\ currentAllocs' = allocs
        /\ pc' = "returned"
        /\ IF got.err # "nil"
           THEN /\ currentMetrics' = EmptyMap
                /\ candidatesMetrics' = EmptyMap
                /\ alloc' = NoLocals
                /\ ret' = NilResult @@ [err |-> [NoError EXCEPT !.kind = got.err]]
           ELSE /\ currentMetrics' = parts.current
                /\ candidatesMetrics' = parts.candidates
                /\ \E o \in obtainAllocations(a.rplMin, a.rplMax, parts.current, parts.candidates) :
                      /\ alloc' = o.local
                      /\ ret' = o.ret @@ [err |-> o.err]
        /\ UNCHANGED <<pinAllocs, metrics, now>>

Requests ==
    {[rplMin |-> mn, rplMax |-> mx, blacklist |-> bl] :
        mn \in 1..MaxRpl, mx \in 1..MaxRpl, bl \in Blacklists}

Answers ==
    {e \in [stateOk : BOOLEAN, leaderOk : BOOLEAN, rpcOk : BOOLEAN] :
        ~e.leaderOk => e.rpcOk}

\* A caller pins or re-pins: allocate with valid replication factors.
Allocate ==
    /\ pc = "idle"
    /\ \E a \in Requests, e \in Answers :
          /\ a.rplMin <= a.rplMax
          /\ Call(a, e)
    /\ repeat' = FALSE

\* The caller commits the returned list as the pin's allocations; the call is
\* over and only its arguments are kept, for the caller to repeat it.
Commit ==
    /\ pc = "returned"
    /\ env.stateOk
    /\ ret.err.kind = "nil"
    /\ ~ret.nil
    /\ pinAllocs' = ret.list
    /\ pc' = "committed"
    /\ currentAllocs' = <<>>
    /\ currentMetrics' = EmptyMap
    /\ candidatesMetrics' = EmptyMap
    /\ alloc' = NoLocals
    /\ ret' = NoReturn
    /\ UNCHANGED <<metrics, now, args, env, repeat>>

\* allocate is invoked again, nothing else having changed.
Reallocate ==
    /\ pc = "committed"
    /\ Call(args, env)
    /\ repeat' = TRUE

Next == Allocate \/ Commit \/ Reallocate

Spec == Init /\ [][Next]_vars

SpecRepeated == InitRepeated /\ [][Next]_vars

\* ------------------------------------------------------------- properties

\* allocate has returned (the last call's arguments and outcome are in place).
Returned == pc = "returned"

\* The monitor answered: allocate went on to divide the metrics.
MonitorOk == env.leaderOk /\ env.rpcOk

\* allocate returned a list and no error.
ReturnedList == Returned /\ ret.err.kind = "nil" /\ ~ret.nil

nCur == Cardinality(DOMAIN currentMetrics)

nCand == Cardinality(DOMAIN candidatesMetrics)

\* Peers with a metric in the snapshot that Discard() keeps / drops.
UsablePeers == {metrics[i].Peer : i \in {j \in DOMAIN metrics : ~Discard(metrics[j], now)}}

DiscardedPeers == {metrics[i].Peer : i \in {j \in DOMAIN metrics : Discard(metrics[j], now)}}

\* C1: a list returned without error has at least rplMin and at most rplMax
\* entries, in the shrink branch and in the expand branch.
C1_ListWithinReplicationBounds ==
    ReturnedList =>
        /\ Len(ret.list) <= args.rplMax
        /\ Len(ret.list) >= args.rplMin

\* C1 witness: the expand branch returned fewer peers than rplMax allows and
\* exactly rplMin of them.
C1_Witness ==
    /\ ReturnedList
    /\ alloc.allocator.called
    /\ args.rplMin < args.rplMax
    /\ Len(ret.list) = args.rplMin
    /\ nCur > 0
    /\ nCand > args.rplMin - nCur

\* C2: with rplMin <= nCur <= rplMax (nCur = rplMax included) allocate returns
\* nil without error and does not call the allocator.
C2_WithinBoundsNoChange ==
    (Returned /\ MonitorOk /\ args.rplMin <= nCur /\ nCur <= args.rplMax) =>
        /\ ret.nil
        /\ ret.err.kind = "nil"
        /\ ~alloc.allocator.called

\* C3: a call that repeats the previous one, whose returned list became the
\* pin's allocations and nothing else changed, returns nil, nil.
C3_SecondCallReturnsNil ==
    (Returned /\ repeat) => (ret.nil /\ ret.err.kind = "nil")

\* C4: no blacklisted peer is current-valid or candidate-valid, none is handed
\* to the allocator, and none is in a returned list.
C4_BlacklistHonored ==
    Returned =>
        \A p \in Range(args.blacklist) :
            /\ p \notin DOMAIN currentMetrics
            /\ p \notin DOMAIN candidatesMetrics
            /\ p \notin alloc.allocator.current \cup alloc.allocator.candidates
            /\ ~ret.nil => p \notin Range(ret.list)

\* C4 witness: a blacklisted peer of the current allocations has a usable
\* metric, the allocator was called and a list came back.
C4_Witness ==
    /\ ReturnedList
    /\ alloc.allocator.called
    /\ \E p \in Range(args.blacklist) :
          p \in Range(currentAllocs) /\ p \in UsablePeers

\* C5: every peer of a returned list is a current allocation with a usable
\* metric or a candidate the allocator returned; a current allocation without
\* a usable metric is not in the list; no returned peer has a discarded metric.
C5_ReturnedPeersAreUsable ==
    ReturnedList =>
        /\ \A p \in Range(ret.list) :
              \/ p \in Range(currentAllocs) /\ p \in UsablePeers
              \/ /\ alloc.allocator.called
                 /\ p \in Range(alloc.allocator.peers)
                 /\ p \in DOMAIN candidatesMetrics
        /\ \A p \in Range(currentAllocs) :
              p \notin UsablePeers => p \notin Range(ret.list)
        /\ Range(ret.list) \cap DiscardedPeers = {}

\* C5 witness: a list came back while one current allocation has a discarded
\* metric and another has no metric at all.
C5_Witness ==
    /\ ReturnedList
    /\ \E p, q \in Range(currentAllocs) :
          /\ p \in DiscardedPeers
          /\ q \notin UsablePeers \cup DiscardedPeers
    /\ \E p \in Range(currentAllocs) : p \in Range(ret.list)

\* C6: a list of the expand branch is the current-valid peers, nCur of them,
\* followed by the first min(wanted, |ranked|) peers of the allocator's list.
C6_CurrentValidPrefix ==
    (ReturnedList /\ alloc.allocator.called) =>
        LET take == minInt(args.rplMax - nCur, Len(alloc.allocator.peers))
        IN  /\ Len(ret.list) = nCur + take
            /\ Range(SubSeq(ret.list, 1, nCur)) = DOMAIN currentMetrics
            /\ SubSeq(ret.list, nCur + 1, Len(ret.list)) =
                   SubSeq(alloc.allocator.peers, 1, take)

\* C6 witness: one current-valid peer is kept and the allocator ranked more
\* peers than wanted.
C6_Witness ==
    /\ ReturnedList
    /\ alloc.allocator.called
    /\ nCur > 0
    /\ Len(alloc.allocator.peers) > args.rplMax - nCur

\* The two ways of having too few candidates.
TooFewCandidates == Returned /\ MonitorOk /\ args.rplMin - nCur > 0 /\ nCand < args.rplMin - nCur

AllocatorShort ==
    /\ Returned
    /\ alloc.allocator.called
    /\ ~alloc.allocator.err
    /\ Len(alloc.allocator.peers) < args.rplMin - nCur

\* C7 as claimed: in both cases the error reports needed, wanted and the
\* candidate-valid set, nCand peers.
C7_SameErrorInBothCases ==
    (TooFewCandidates \/ AllocatorShort) =>
        /\ ret.nil
        /\ ret.err = [kind |-> "allocation", needed |-> args.rplMin - nCur,
                      wanted |-> args.rplMax - nCur, valid |-> nCand,
                      peers |-> DOMAIN candidatesMetrics]

\* C7 amended: both cases return no list and an allocation error with
\* needed = rplMin - nCur and wanted = rplMax - nCur; with nCand < needed the
\* valid candidates reported are the candidate-valid set, and when the
\* allocator returned fewer than needed they are the peers it returned.
C7_AllocationErrorReports ==
    /\ TooFewCandidates =>
          /\ ret.nil
          /\ ~alloc.allocator.called
          /\ ret.err = [kind |-> "allocation", needed |-> args.rplMin - nCur,
                        wanted |-> args.rplMax - nCur, valid |-> nCand,
                        peers |-> DOMAIN candidatesMetrics]
    /\ AllocatorShort =>
          /\ ret.nil
          /\ ret.err = [kind |-> "allocation", needed |-> args.rplMin - nCur,
                        wanted |-> args.rplMax - nCur,
                        valid |-> Len(alloc.allocator.peers),
                        peers |-> Range(alloc.allocator.peers)]

\* C7 witness: with enough candidates the allocator returned one peer where
\* more are needed, and needed differs from wanted.
C7_Witness ==
    /\ AllocatorShort
    /\ Len(alloc.allocator.peers) = 1
    /\ args.rplMin - nCur # args.rplMax - nCur
    /\ nCand > 1

\* C8: without a leader, or when the fetch from it fails, allocate returns
\* that error and nil, whatever the state holds, and neither divides metrics
\* nor calls the allocator.
C8_MonitorUnavailableAborts ==
    (Returned /\ ~MonitorOk) =>
        /\ ret.nil
        /\ ret.err.kind = (IF env.leaderOk THEN "rpc" ELSE "noleader")
        /\ currentMetrics = EmptyMap
        /\ candidatesMetrics = EmptyMap
        /\ ~alloc.allocator.called

\* C8 witness: no leader, while the pin has allocations and a candidate peer
\* has a usable metric.
C8_Witness ==
    /\ Returned
    /\ ~env.leaderOk
    /\ env.stateOk
    /\ pinAllocs # <<>>
    /\ UsablePeers \ Range(pinAllocs) # {}

\* C9: without a state the current allocations are the empty list, nothing is
\* current-valid, every usable peer off the blacklist is a candidate, and the
\* outcome is one that obtainAllocations has for these candidates and no
\* current metrics.
C9_MissingStateIsEmpty ==
    (Returned /\ ~env.stateOk) =>
        /\ currentAllocs = <<>>
        /\ MonitorOk =>
              /\ currentMetrics = EmptyMap
              /\ DOMAIN candidatesMetrics = UsablePeers \ Range(args.blacklist)
              /\ alloc.needed = args.rplMin
              /\ alloc.wanted = args.rplMax
              /\ \E o \in obtainAllocations(args.rplMin, args.rplMax,
                                            EmptyMap, candidatesMetrics) :
                    o.local = alloc /\ o.ret @@ [err |-> o.err] = ret

\* C9 witness: the state is missing while the pin is allocated to a peer with
\* a usable metric, and allocate returns a list with that peer as a candidate.
C9_Witness ==
    /\ ReturnedList
    /\ ~env.stateOk
    /\ \E p \in Range(pinAllocs) : p \in DOMAIN candidatesMetrics /\ p \in Range(ret.list)

\* C10: with more current-valid peers than rplMax, allocate returns the first
\* rplMax peers of the current-valid enumeration, without error and without
\* the allocator; nCur - rplMax current-valid peers are dropped.
C10_ShrinkIsPrefix ==
    (Returned /\ MonitorOk /\ nCur > args.rplMax) =>
        /\ ~ret.nil
        /\ ret.err.kind = "nil"
        /\ ~alloc.allocator.called
        /\ Len(ret.list) = args.rplMax
        /\ alloc.validAllocations \in MapOrders(DOMAIN currentMetrics)
        /\ ret.list = SubSeq(alloc.validAllocations, 1, args.rplMax)
        /\ Range(ret.list) \subseteq DOMAIN currentMetrics
        /\ Cardinality(DOMAIN currentMetrics \ Range(ret.list)) = nCur - args.rplMax

\* C10 witness: three current-valid peers and rplMax = 1, two are dropped.
C10_Witness ==
    /\ Returned
    /\ MonitorOk
    /\ nCur = 3
    /\ args.rplMax = 1
    /\ Len(ret.list) = 1

\* The peers allocate placed in one of its two maps.
PlacedPeers == DOMAIN currentMetrics \cup DOMAIN candidatesMetrics

\* A metric of the snapshot whose expiry is exactly the clock reading.
ExpiresNow(m) == m.Expire # <<>> /\ m.Expire[1] = now

\* C11 as claimed: Expired() is true iff no expiry is set or now is at or after
\* the expiry; a metric expiring exactly now is expired and discarded, and
\* allocate puts its peer in neither map.
C11_ExpiredAtOrAfterExpiry ==
    (Returned /\ MonitorOk) =>
        \A i \in DOMAIN metrics :
            LET m == metrics[i]
            IN  /\ Expired(m, now) <=> (m.Expire = <<>> \/ now >= m.Expire[1])
                /\ ExpiresNow(m) => (Discard(m, now) /\ m.Peer \notin PlacedPeers)

\* C11 amended: Expired() is true iff no expiry is set or now is after the
\* expiry; a valid metric expiring exactly now is not discarded, and allocate
\* puts a peer in one of its maps iff it is off the blacklist and its metric is
\* valid with now <= expiry.
C11_ExpiredStrictlyAfterExpiry ==
    (Returned /\ MonitorOk) =>
        \A i \in DOMAIN metrics :
            LET m == metrics[i]
            IN  /\ Expired(m, now) <=> (m.Expire = <<>> \/ now > m.Expire[1])
                /\ Discard(m, now) <=> (~m.Valid \/ m.Expire = <<>> \/ now > m.Expire[1])
                /\ m.Peer \in PlacedPeers <=>
                       /\ m.Valid
                       /\ m.Expire # <<>>
                       /\ now <= m.Expire[1]
                       /\ m.Peer \notin Range(args.blacklist)

\* C11 witness: a valid metric expires exactly now, its peer was a candidate
\* and is in the returned list.
C11_Witness ==
    /\ ReturnedList
    /\ \E i \in DOMAIN metrics :
          /\ metrics[i].Valid
          /\ ExpiresNow(metrics[i])
          /\ metrics[i].Peer \in DOMAIN candidatesMetrics
          /\ metrics[i].Peer \in Range(ret.list)

\* The outcomes another invocation of allocate can have on the state, metrics
\* and clock of the last call, with the same arguments and the same answer of
\* the allocator.
SameCallOutcomes ==
    LET allocs == getCurrentAllocations(env.stateOk, pinAllocs)
        parts == divide(metrics, [current |-> EmptyMap, candidates |-> EmptyMap],
                        args.blacklist, allocs, now)
    IN  {o \in obtainAllocations(args.rplMin, args.rplMax,
                                 parts.current, parts.candidates) :
            o.local.allocator = alloc.allocator}

\* C12 as claimed: another invocation on the same snapshots, clock, arguments
\* and allocator output returns the same list in the same order, or nil, or
\* the same error, in every branch.
C12_SameOutcome ==
    (Returned /\ MonitorOk) =>
        \A o \in SameCallOutcomes :
            /\ o.ret.nil = ret.nil
            /\ o.ret.list = ret.list
            /\ o.err = ret.err

\* C12 amended: another such invocation returns nil, or the same error, or a
\* list of the same length, alike; in the expand branch the peers after the
\* first nCur are the same in the same order and the first nCur are the same
\* set; in the drop branch both lists are the first entries of an enumeration
\* of the current-valid peers; with at most one current-valid peer the lists
\* are equal.
C12_SameOutcomeUpToMapOrder ==
    (Returned /\ MonitorOk) =>
        \A o \in SameCallOutcomes :
            /\ o.ret.nil = ret.nil
            /\ o.err = ret.err
            /\ Len(o.ret.list) = Len(ret.list)
            /\ nCur <= 1 => o.ret.list = ret.list
            /\ (~ret.nil /\ alloc.allocator.called) =>
                  /\ Range(SubSeq(o.ret.list, 1, nCur)) = Range(SubSeq(ret.list, 1, nCur))
                  /\ SubSeq(o.ret.list, nCur + 1, Len(ret.list)) =
                         SubSeq(ret.list, nCur + 1, Len(ret.list))
            /\ (~ret.nil /\ ~alloc.allocator.called) =>
                  \E va \in MapOrders(DOMAIN currentMetrics) :
                      o.ret.list = SubSeq(va, 1, Len(ret.list))

\* C12 witness: over-replicated, and another invocation on the same inputs
\* drops a different set of peers.
C12_Witness ==
    /\ Returned
    /\ MonitorOk
    /\ nCur > args.rplMax
    /\ \E o \in SameCallOutcomes : Range(o.ret.list) # Range(ret.list)

\* A list with each peer at most once.
NoDuplicates(l) == \A i, j \in DOMAIN l : i # j => l[i] # l[j]

\* C13 as claimed: a returned list holds each peer at most once, whatever the
\* metrics list and whatever peers of its inputs the allocator returns.
C13_NoDuplicateAllocations ==
    ReturnedList => NoDuplicates(ret.list)

\* C13 amended: a returned list holds each peer at most once, whatever the
\* metrics list, when the allocator returns each peer at most once and only
\* peers of the candidate metrics.
C13_NoDuplicatesOfDistinctCandidates ==
    (/\ ReturnedList
     /\ alloc.allocator.called =>
           /\ NoDuplicates(alloc.allocator.peers)
           /\ Range(alloc.allocator.peers) \subseteq DOMAIN candidatesMetrics)
    => NoDuplicates(ret.list)

\* C13 witness: a current peer has two usable metrics, and the allocator's
\* distinct candidates were appended to it.
C13_Witness ==
    /\ ReturnedList
    /\ alloc.allocator.called
    /\ NoDuplicates(alloc.allocator.peers)
    /\ Range(alloc.allocator.peers) \subseteq DOMAIN candidatesMetrics
    /\ Len(ret.list) > 1
    /\ \E i, j \in DOMAIN metrics :
          /\ i # j
          /\ metrics[i].Peer = metrics[j].Peer
          /\ ~Discard(metrics[i], now)
          /\ ~Discard(metrics[j], now)
          /\ metrics[i].Peer \in DOMAIN currentMetrics
          /\ metrics[i].Peer \in Range(ret.list)

====
